---- MODULE Spec2Model ----
(***************************************************************************)
(* Model of the Typthon C++ type core: the TypeSet bit vector             *)
(* (cpp/include/typthon/core/types.hpp), the TypeLattice queries          *)
(* (cpp/src/core/types.cpp) and the C ABI over both                       *)
(* (typthon-core/runtime/cpp/src/ffi/ffi.cpp).                            *)
(*                                                                         *)
(* A 64-bit word is modelled as the set of its set bit positions          *)
(* (a subset of 0..63): | is \cup, & is \cap, & ~ is \, popcount is       *)
(* Cardinality.  A TypeSet is its array bits_ : 0..WORDS-1 -> word.       *)
(***************************************************************************)
EXTENDS Integers, Sequences, FiniteSets

VARIABLES
  supertype_graph,  \* types.cpp: TypeId -> vector of immediate supertypes
  lq,               \* the last TypeLattice call and what it returned
  crashed,          \* the process died (an outcome of undefined behaviour)
  build,            \* which #if branch of types.hpp this binary was compiled with
  cA, cB,           \* two TypeSet values, the operands of a set operation
  cres,             \* the last TypeSet operation applied to cA, cB and its result
  live,             \* addresses of the TypeSet objects allocated and not deleted
  released,         \* addresses the caller was given and has since freed
  mem,              \* address -> bits_ of the TypeSet stored there
  last,             \* the last C ABI call and what it returned
  arr_in, arr_cap,  \* a caller's id array and the capacity of its output buffer
  arr_out           \* the output buffer and the count typeset_to_array returned

latticeVars == <<supertype_graph, lq>>
chunkVars == <<cA, cB, cres>>
heapVars == <<live, released, mem, last>>
arrayVars == <<arr_in, arr_cap, arr_out>>
vars == <<supertype_graph, lq, crashed, build, cA, cB, cres, live, released, mem, last,
          arr_in, arr_cap, arr_out>>

(***************************************************************************)
(* Program constants                                                       *)
(***************************************************************************)
BITS == 4096
WORD_BITS == 64
WORDS == BITS \div WORD_BITS
VisitedSize == 4096
BottomType == 0
TopType == 1

(***************************************************************************)
(* Bounds of the model                                                     *)
(***************************************************************************)
MaxEdges == 2

\* The addresses operator new hands out.
Slots == {1, 2, 3}

\* In-range type ids the lattice is exercised on: the two sentinels and two
\* ordinary types.
LatticeIds == {0, 1, 2, BITS - 1}
\* An id outside [0, BITS).
BadId == BITS + 3

InRange(id) == 0 <= id /\ id < BITS

(***************************************************************************)
(* TypeSet (types.hpp)                                                     *)
(***************************************************************************)
WordIdx == 0..(WORDS - 1)

\* TypeSet(): memset(bits_, 0, sizeof(bits_))
ZeroBits == [w \in WordIdx |-> {}]

\* TypeSet::insert, for an id inside [0, BITS)
insert(bits, id) == [bits EXCEPT ![id \div WORD_BITS] = @ \cup {id % WORD_BITS}]

\* TypeSet::contains, for an id inside [0, BITS)
contains(bits, id) == (id % WORD_BITS) \in bits[id \div WORD_BITS]

\* TypeSet::remove, for an id inside [0, BITS)
remove(bits, id) == [bits EXCEPT ![id \div WORD_BITS] = @ \ {id % WORD_BITS}]

\* The three compilations of the binary operations.
Builds == {"AVX2", "NEON", "SCALAR"}

\* Words per loop step: _mm256 (4 x 64 bit), uint64x2_t (2 x 64 bit), scalar.
Lanes(b) == CASE b = "AVX2" -> 4 [] b = "NEON" -> 2 [] OTHER -> 1

\* _mm256_or_si256 / vorrq_u64 / |, _mm256_and_si256 / vandq_u64 / &, & ~
WordOp(op, x, y) ==
  CASE op = "or" -> x \cup y
    [] op = "and" -> x \cap y
    [] op = "andnot" -> x \ y

\* One loop step at word i: the lanes words of a and b loaded there are
\* combined and stored at i .. i+lanes-1 of the destination.  acc.stored logs
\* the word indices stored so far.
RECURSIVE StoreLanes(_, _, _, _, _, _, _)
StoreLanes(op, a, b, i, k, lanes, acc) ==
  IF k = lanes THEN acc
  ELSE StoreLanes(op, a, b, i, k + 1, lanes,
         [bits |-> [acc.bits EXCEPT ![i + k] = WordOp(op, a[i + k], b[i + k])],
          stored |-> Append(acc.stored, i + k)])

\* The loop state after one more step of lanes words at word st.i, advancing
\* the index by stride.
LoopStep(op, lanes, stride, a, b, st) ==
  LET r == StoreLanes(op, a, b, st.i, 0, lanes, [bits |-> st.bits, stored |-> st.stored])
  IN [i |-> st.i + stride, bits |-> r.bits, stored |-> r.stored]

\* Mutant of ChunkLoop: every path advances by the AVX2 stride of 4 words.
RECURSIVE ChunkLoopStride4(_, _, _, _, _)
ChunkLoopStride4(op, lanes, a, b, st) ==
  IF st.i < WORDS
  THEN ChunkLoopStride4(op, lanes, a, b, LoopStep(op, lanes, 4, a, b, st))
  ELSE st

\* for (size_t i = 0; i < WORDS; i += lanes) into a fresh result
RECURSIVE ChunkLoop(_, _, _, _, _)
ChunkLoop(op, lanes, a, b, st) ==
  IF st.i < WORDS
  THEN ChunkLoop(op, lanes, a, b, LoopStep(op, lanes, lanes, a, b, st))
  ELSE st

\* The same loop storing into bits_ itself; aliased: other is this very set.
RECURSIVE InplaceLoop(_, _, _, _, _)
InplaceLoop(op, lanes, other, aliased, st) ==
  IF st.i < WORDS
  THEN InplaceLoop(op, lanes, other, aliased,
         LoopStep(op, lanes, lanes, st.bits, IF aliased THEN st.bits ELSE other, st))
  ELSE st

\* TypeSet::operator|
set_union(b, x, y) ==
  ChunkLoop("or", Lanes(b), x, y, [i |-> 0, bits |-> ZeroBits, stored |-> <<>>])

\* TypeSet::operator&
set_intersection(b, x, y) ==
  ChunkLoop("and", Lanes(b), x, y, [i |-> 0, bits |-> ZeroBits, stored |-> <<>>])

\* TypeSet::operator- (one scalar loop in every build)
set_difference(b, x, y) ==
  ChunkLoop("andnot", 1, x, y, [i |-> 0, bits |-> ZeroBits, stored |-> <<>>])

\* TypeSet::union_inplace
union_inplace(b, x, other, aliased) ==
  InplaceLoop("or", Lanes(b), other, aliased, [i |-> 0, bits |-> x, stored |-> <<>>])

\* TypeSet::intersect_inplace
intersect_inplace(b, x, other, aliased) ==
  InplaceLoop("and", Lanes(b), other, aliased, [i |-> 0, bits |-> x, stored |-> <<>>])

\* TypeSet::insert_many over in-range ids, from position i on
RECURSIVE insert_many(_, _, _)
insert_many(bits, ids, i) ==
  IF i > Len(ids) THEN bits ELSE insert_many(insert(bits, ids[i]), ids, i + 1)

(***************************************************************************)
(* TypeLattice (types.cpp)                                                 *)
(***************************************************************************)
Edges == LatticeIds \X LatticeIds

RECURSIVE EdgeSeqs(_)
EdgeSeqs(n) ==
  IF n = 0 THEN {<<>>}
  ELSE LET shorter == EdgeSeqs(n - 1)
       IN shorter \cup {Append(s, e) : s \in {t \in shorter : Len(t) = n - 1}, e \in Edges}

EmptyGraph == [t \in LatticeIds |-> <<>>]

\* The adjacency lists after the edges of es were pushed back in order.
RECURSIVE BuildGraph(_)
BuildGraph(es) ==
  IF es = <<>> THEN EmptyGraph
  ELSE LET g == BuildGraph(SubSeq(es, 1, Len(es) - 1))
           e == es[Len(es)]
       IN [g EXCEPT ![e[1]] = Append(@, e[2])]

\* supertype_graph.find(current): the vector, or nothing to iterate over.
SupersOf(g, current) == IF current \in DOMAIN g THEN g[current] ELSE <<>>

\* Mutant of ScanSupers: marks a supertype visited but forgets to enqueue it.
RECURSIVE ScanSupersNoPush(_, _, _, _, _)
ScanSupersNoPush(supers, j, b, queue, visited) ==
  IF j > Len(supers) THEN [found |-> FALSE, queue |-> queue, visited |-> visited]
  ELSE IF supers[j] = b THEN [found |-> TRUE, queue |-> queue, visited |-> visited]
  ELSE ScanSupersNoPush(supers, j + 1, b, queue, visited \cup {supers[j]})

\* The for loop over it->second (types.cpp:49-55), from position j on.
RECURSIVE ScanSupers(_, _, _, _, _)
ScanSupers(supers, j, b, queue, visited) ==
  IF j > Len(supers) THEN [found |-> FALSE, queue |-> queue, visited |-> visited]
  ELSE IF supers[j] = b THEN [found |-> TRUE, queue |-> queue, visited |-> visited]
  ELSE IF supers[j] \notin visited
       THEN ScanSupers(supers, j + 1, b, Append(queue, supers[j]), visited \cup {supers[j]})
       ELSE ScanSupers(supers, j + 1, b, queue, visited)

\* The while loop (types.cpp:44-57); front counts the entries already dequeued.
RECURSIVE BfsLoop(_, _, _, _, _)
BfsLoop(g, b, queue, visited, front) ==
  IF front < Len(queue)
  THEN LET current == queue[front + 1]
           r == ScanSupers(SupersOf(g, current), 1, b, queue, visited)
       IN IF r.found
          THEN [ub |-> FALSE, ret |-> TRUE, dequeued |-> front + 1]
          ELSE BfsLoop(g, b, r.queue, r.visited, front + 1)
  ELSE [ub |-> FALSE, ret |-> FALSE, dequeued |-> front]

\* TypeLattice::is_subtype.  visited[a] = true indexes a vector of VisitedSize
\* elements: with a outside it the behaviour is undefined.
is_subtype(g, a, b) ==
  IF a = b THEN [ub |-> FALSE, ret |-> TRUE, dequeued |-> 0]
  ELSE IF ~(0 <= a /\ a < VisitedSize) THEN [ub |-> TRUE, ret |-> FALSE, dequeued |-> 0]
  ELSE BfsLoop(g, b, <<a>>, {a}, 0)

\* Mutant of meet: tests the second direction first.
meetSwapped(g, a, b) ==
  IF a = b THEN [ub |-> FALSE, ret |-> a]
  ELSE LET ba == is_subtype(g, b, a) IN
       IF ba.ub THEN [ub |-> TRUE, ret |-> BottomType]
       ELSE IF ba.ret THEN [ub |-> FALSE, ret |-> b]
       ELSE LET ab == is_subtype(g, a, b) IN
            IF ab.ub THEN [ub |-> TRUE, ret |-> BottomType]
            ELSE IF ab.ret THEN [ub |-> FALSE, ret |-> a]
            ELSE [ub |-> FALSE, ret |-> BottomType]

\* TypeLattice::meet
meet(g, a, b) ==
  IF a = b THEN [ub |-> FALSE, ret |-> a]
  ELSE LET ab == is_subtype(g, a, b) IN
       IF ab.ub THEN [ub |-> TRUE, ret |-> BottomType]
       ELSE IF ab.ret THEN [ub |-> FALSE, ret |-> a]
       ELSE LET ba == is_subtype(g, b, a) IN
            IF ba.ub THEN [ub |-> TRUE, ret |-> BottomType]
            ELSE IF ba.ret THEN [ub |-> FALSE, ret |-> b]
            ELSE [ub |-> FALSE, ret |-> BottomType]

\* TypeLattice::join
join(g, a, b) ==
  IF a = b THEN [ub |-> FALSE, ret |-> a]
  ELSE LET ab == is_subtype(g, a, b) IN
       IF ab.ub THEN [ub |-> TRUE, ret |-> TopType]
       ELSE IF ab.ret THEN [ub |-> FALSE, ret |-> b]
       ELSE LET ba == is_subtype(g, b, a) IN
            IF ba.ub THEN [ub |-> TRUE, ret |-> TopType]
            ELSE IF ba.ret THEN [ub |-> FALSE, ret |-> a]
            ELSE [ub |-> FALSE, ret |-> TopType]

NoQuery == [op |-> "none", a |-> 0, b |-> 0, status |-> "Ok", retb |-> FALSE,
            reti |-> 0, dequeued |-> 0]

\* type_is_subtype(a, b) (ffi.cpp:49-51).  An out-of-bounds visited[a] either
\* kills the process or lets the call return some value.
IsSubtypeCall(a, b) ==
  /\ ~crashed
  /\ LET r == is_subtype(supertype_graph, a, b) IN
     IF r.ub
     THEN \/ /\ crashed' = TRUE
             /\ lq' = [NoQuery EXCEPT !.op = "is_subtype", !.a = a, !.b = b,
                                      !.status = "Crash"]
          \/ /\ crashed' = FALSE
             /\ \E v \in BOOLEAN :
                  lq' = [NoQuery EXCEPT !.op = "is_subtype", !.a = a, !.b = b,
                                        !.status = "Undefined", !.retb = v]
     ELSE /\ crashed' = FALSE
          /\ lq' = [NoQuery EXCEPT !.op = "is_subtype", !.a = a, !.b = b,
                                   !.retb = r.ret, !.dequeued = r.dequeued]
  /\ UNCHANGED <<supertype_graph, build, chunkVars, heapVars, arrayVars>>

\* type_meet(a, b) (ffi.cpp:53-55)
MeetCall(a, b) ==
  /\ ~crashed
  /\ LET r == meet(supertype_graph, a, b) IN
     IF r.ub
     THEN \/ /\ crashed' = TRUE
             /\ lq' = [NoQuery EXCEPT !.op = "meet", !.a = a, !.b = b, !.status = "Crash"]
          \/ /\ crashed' = FALSE
             /\ \E v \in {a, b, BottomType} :
                  lq' = [NoQuery EXCEPT !.op = "meet", !.a = a, !.b = b,
                                        !.status = "Undefined", !.reti = v]
     ELSE /\ crashed' = FALSE
          /\ lq' = [NoQuery EXCEPT !.op = "meet", !.a = a, !.b = b, !.reti = r.ret]
  /\ UNCHANGED <<supertype_graph, build, chunkVars, heapVars, arrayVars>>

\* type_join(a, b) (ffi.cpp:57-59)
JoinCall(a, b) ==
  /\ ~crashed
  /\ LET r == join(supertype_graph, a, b) IN
     IF r.ub
     THEN \/ /\ crashed' = TRUE
             /\ lq' = [NoQuery EXCEPT !.op = "join", !.a = a, !.b = b, !.status = "Crash"]
          \/ /\ crashed' = FALSE
             /\ \E v \in {a, b, TopType} :
                  lq' = [NoQuery EXCEPT !.op = "join", !.a = a, !.b = b,
                                        !.status = "Undefined", !.reti = v]
     ELSE /\ crashed' = FALSE
          /\ lq' = [NoQuery EXCEPT !.op = "join", !.a = a, !.b = b, !.reti = r.ret]
  /\ UNCHANGED <<supertype_graph, build, chunkVars, heapVars, arrayVars>>

LatticeIdle == supertype_graph = EmptyGraph /\ lq = NoQuery

NoResult == [op |-> "none", bits |-> ZeroBits, stored |-> <<>>, wrote |-> "result"]
ChunkIdle == cA = ZeroBits /\ cB = ZeroBits /\ cres = NoResult

NoCall == [op |-> "none", h |-> 0, ret |-> 0, status |-> "Ok", stale |-> FALSE,
           badid |-> FALSE, count |-> 0, bval |-> FALSE, nval |-> 0]
HeapIdle ==
  /\ live = {}
  /\ released = {}
  /\ mem = [s \in Slots |-> ZeroBits]
  /\ last = NoCall

NoOutput == [written |-> 0, buf |-> <<>>, done |-> FALSE]
ArrayIdle == arr_in = <<>> /\ arr_cap = 0 /\ arr_out = NoOutput

\* The lattice under query: the edge set is an input of the queries (the
\* queries read whatever the two file-scope maps hold).
InitLattice ==
  /\ \E es \in EdgeSeqs(MaxEdges) : supertype_graph = BuildGraph(es)
  /\ lq = NoQuery
  /\ crashed = FALSE
  /\ build = "SCALAR"
  /\ ChunkIdle
  /\ HeapIdle
  /\ ArrayIdle

NextLattice ==
  \E a \in LatticeIds, b \in LatticeIds :
    \/ IsSubtypeCall(a, b)
    \/ MeetCall(a, b)
    \/ JoinCall(a, b)

SpecLattice == InitLattice /\ [][NextLattice]_vars

(***************************************************************************)
(* Properties of the lattice queries                                       *)
(***************************************************************************)
Range(seq) == {seq[i] : i \in 1..Len(seq)}

\* The nodes reachable from S by zero or more declared supertype edges, as a
\* least fixpoint (independent of the traversal in is_subtype).
RECURSIVE Closure(_, _)
Closure(g, S) ==
  LET T == S \cup UNION {Range(g[x]) : x \in S}
  IN IF T = S THEN S ELSE Closure(g, T)

Reach(g, a) == Closure(g, {a})

\* C1: for every edge set (cyclic ones included) and in-range a, b,
\* is_subtype(a, b) returns normally, dequeuing each node at most once, and is
\* true exactly when b is in the reflexive-transitive closure of the declared
\* edges from a; is_subtype(a, a) is true and the relation is transitive.
C1_IsSubtypeIsClosure ==
  (lq.op = "is_subtype" /\ InRange(lq.a) /\ InRange(lq.b)) =>
    /\ lq.status = "Ok"
    /\ lq.retb = (lq.b \in Reach(supertype_graph, lq.a))
    /\ lq.dequeued <= Cardinality(Reach(supertype_graph, lq.a))
    /\ is_subtype(supertype_graph, lq.a, lq.a).ret
    /\ \A c \in LatticeIds :
         (lq.retb /\ is_subtype(supertype_graph, lq.b, c).ret)
           => is_subtype(supertype_graph, lq.a, c).ret

\* C1 witness: a query answered true through an intermediate type only (b is
\* no immediate supertype of a).
C1_Witness ==
  /\ lq.op = "is_subtype"
  /\ lq.status = "Ok"
  /\ lq.a # lq.b
  /\ lq.retb
  /\ lq.b \notin Range(supertype_graph[lq.a])

C6_MeetJoin ==
  LET sub == is_subtype(supertype_graph, lq.a, lq.b).ret
      sup == is_subtype(supertype_graph, lq.b, lq.a).ret
  IN /\ (lq.op = "meet" /\ InRange(lq.a) /\ InRange(lq.b)) =>
          /\ lq.status = "Ok"
          /\ sub => lq.reti = lq.a
          /\ (~sub /\ ~sup) => lq.reti = BottomType
     /\ (lq.op = "join" /\ InRange(lq.a) /\ InRange(lq.b)) =>
          /\ lq.status = "Ok"
          /\ sub => lq.reti = lq.b
          /\ (~sub /\ ~sup) => lq.reti = TopType

\* C6 witness: a meet of two mutually reachable, distinct types (a cycle),
\* which must still return its first argument.
C6_Witness ==
  /\ lq.op = "meet"
  /\ lq.a # lq.b
  /\ is_subtype(supertype_graph, lq.a, lq.b).ret
  /\ is_subtype(supertype_graph, lq.b, lq.a).ret
  /\ lq.reti = lq.a

(***************************************************************************)
(* The binary set operations as pure functions of two sets                 *)
(***************************************************************************)
\* Ids in words 0, 2, 3 and 63: the first and the last step, an even and an
\* odd lane of a 2-word step, the upper lanes of a 4-word step.
ChunkIds == {0, 130, 200, 4095}

RECURSIVE SetOfIds(_)
SetOfIds(S) ==
  IF S = {} THEN ZeroBits
  ELSE LET id == CHOOSE x \in S : TRUE IN insert(SetOfIds(S \ {id}), id)

ChunkSets == {SetOfIds(S) : S \in SUBSET ChunkIds}

Applied(op, r, wrote) == [op |-> op, bits |-> r.bits, stored |-> r.stored, wrote |-> wrote]

\* C = A | B
ApplyUnion ==
  /\ cres' = Applied("or", set_union(build, cA, cB), "result")
  /\ UNCHANGED <<cA, cB, build, crashed, latticeVars, heapVars, arrayVars>>

\* C = A & B
ApplyIntersection ==
  /\ cres' = Applied("and", set_intersection(build, cA, cB), "result")
  /\ UNCHANGED <<cA, cB, build, crashed, latticeVars, heapVars, arrayVars>>

\* C = A - B
ApplyDifference ==
  /\ cres' = Applied("andnot", set_difference(build, cA, cB), "result")
  /\ UNCHANGED <<cA, cB, build, crashed, latticeVars, heapVars, arrayVars>>

\* A.union_inplace(B): the result is the new value of A; cA keeps the operand.
ApplyUnionInplace ==
  /\ cres' = Applied("or", union_inplace(build, cA, cB, FALSE), "this")
  /\ UNCHANGED <<cA, cB, build, crashed, latticeVars, heapVars, arrayVars>>

\* A.intersect_inplace(B)
ApplyIntersectInplace ==
  /\ cres' = Applied("and", intersect_inplace(build, cA, cB, FALSE), "this")
  /\ UNCHANGED <<cA, cB, build, crashed, latticeVars, heapVars, arrayVars>>

InitChunk ==
  /\ cA \in ChunkSets
  /\ cB \in ChunkSets
  /\ cres = NoResult
  /\ build \in Builds
  /\ crashed = FALSE
  /\ LatticeIdle
  /\ HeapIdle
  /\ ArrayIdle

NextChunk ==
  \/ ApplyUnion
  \/ ApplyIntersection
  \/ ApplyDifference
  \/ ApplyUnionInplace
  \/ ApplyIntersectInplace

SpecChunk == InitChunk /\ [][NextChunk]_vars

\* What the operation of cres gives under build b.
Recompute(b) ==
  CASE cres.wrote = "this" /\ cres.op = "or" -> union_inplace(b, cA, cB, FALSE)
    [] cres.wrote = "this" /\ cres.op = "and" -> intersect_inplace(b, cA, cB, FALSE)
    [] cres.wrote = "result" /\ cres.op = "or" -> set_union(b, cA, cB)
    [] cres.wrote = "result" /\ cres.op = "and" -> set_intersection(b, cA, cB)
    [] OTHER -> set_difference(b, cA, cB)

\* C7: union, intersection, difference and the two in-place operations give
\* the same 64 words whether computed 4, 2 or 1 words per step, and each path
\* stores each of the 64 words exactly once.
C7_ChunkWidthIrrelevant ==
  cres.op # "none" =>
    /\ \A b \in Builds : Recompute(b).bits = cres.bits
    /\ Len(cres.stored) = WORDS
    /\ Range(cres.stored) = WordIdx
    /\ \A w \in WordIdx : cres.bits[w] = WordOp(cres.op, cA[w], cB[w])

\* C7 witness: a 2-words-per-step union whose operands differ in the odd
\* lanes of a 4-word step and in the last word.
C7_Witness ==
  /\ cres.op = "or"
  /\ build = "NEON"
  /\ cA[2] # cB[2]
  /\ cA[3] # cB[3]
  /\ cA[63] # cB[63]
  /\ cres.bits[3] # {}


(***************************************************************************)
(* The C ABI over heap-allocated TypeSets (ffi.cpp)                        *)
(*                                                                         *)
(* A handle is the address of the TypeSet: reinterpret_cast, no table.     *)
(* Dereferencing a deleted address and indexing bits_ with id / 64 >= WORDS*)
(* are undefined: the outcomes modelled are a crash, a silent access to    *)
(* storage no live set owns, garbage read from released storage, and a     *)
(* write that lands in the storage of another live set.                    *)
(***************************************************************************)
\* The in-range id the heap is exercised on (word 0, bit 3, the bit BadId has
\* in its own word).
SetIds == {3}
CallIds == SetIds \cup {BadId}
SampleSets == {SetOfIds(S) : S \in SUBSET SetIds}
\* Words of a neighbouring set an out-of-bounds bits_[id / 64] may land on.
ClobberWords == {0}

MaxLen == 2
MaxMany == 2
MaxCap == 3
MaxArr == 3
ScanLimit == 4096

RECURSIVE SeqsUpTo(_, _)
SeqsUpTo(S, n) ==
  IF n = 0 THEN {<<>>}
  ELSE LET shorter == SeqsUpTo(S, n - 1)
       IN shorter \cup {Append(q, x) : q \in {t \in shorter : Len(t) = n - 1}, x \in S}

\* Mutant of is_subset_of: the operands of & ~ are exchanged
\* (~bits_[i] & other.bits_[i]), which tests for a superset.
RECURSIVE is_subset_of_exchanged(_, _, _)
is_subset_of_exchanged(x, y, i) ==
  IF i < WORDS
  THEN IF (y[i] \ x[i]) # {} THEN FALSE ELSE is_subset_of_exchanged(x, y, i + 1)
  ELSE TRUE

\* TypeSet::is_subset_of, from word i on
RECURSIVE is_subset_of(_, _, _)
is_subset_of(x, y, i) ==
  IF i < WORDS
  THEN IF (x[i] \ y[i]) # {} THEN FALSE ELSE is_subset_of(x, y, i + 1)
  ELSE TRUE

\* TypeSet::cardinality: st.count after adding the popcount of words st.i ..
RECURSIVE cardinality(_, _)
cardinality(bits, st) ==
  IF st.i < WORDS
  THEN cardinality(bits, [i |-> st.i + 1, count |-> st.count + Cardinality(bits[st.i])])
  ELSE st.count

\* The set operations on the sample sets, tabulated once.
UnionTable ==
  [b \in Builds, x \in SampleSets, y \in SampleSets |-> set_union(b, x, y).bits]
IntersectionTable ==
  [b \in Builds, x \in SampleSets, y \in SampleSets |-> set_intersection(b, x, y).bits]
UnionInplaceTable ==
  [b \in Builds, x \in SampleSets, y \in SampleSets, al \in BOOLEAN |->
     union_inplace(b, x, y, al).bits]
IntersectInplaceTable ==
  [b \in Builds, x \in SampleSets, y \in SampleSets, al \in BOOLEAN |->
     intersect_inplace(b, x, y, al).bits]
SubsetTable == [x \in SampleSets, y \in SampleSets |-> is_subset_of(x, y, 0)]
CardinalityTable == [x \in SampleSets |-> cardinality(x, [i |-> 0, count |-> 0])]

\* Handles the caller holds or once held.
Held == live \cup released

\* What a read through handle h can see: the set, or garbage once deleted.
Deref(h) == IF h \in live THEN {mem[h]} ELSE SampleSets

Call(op, h) == [NoCall EXCEPT !.op = op, !.h = h]

HeapFrame == UNCHANGED <<build, latticeVars, chunkVars, arrayVars>>

\* The process is killed in the middle of call c.
Crash(c) ==
  /\ crashed' = TRUE
  /\ last' = [c EXCEPT !.status = "Crash"]
  /\ UNCHANGED <<live, released, mem>>

\* new TypeSet(...) holding bits: some address no live object occupies.
Allocate(bits, c) ==
  \E r \in Slots \ live :
    /\ live' = live \cup {r}
    /\ released' = released \ {r}
    /\ mem' = [mem EXCEPT ![r] = bits]
    /\ last' = [c EXCEPT !.ret = r]
    /\ crashed' = FALSE

\* typeset_new (ffi.cpp:8-11)
typeset_new ==
  /\ ~crashed
  /\ Allocate(ZeroBits, Call("new", 0))
  /\ HeapFrame

\* typeset_free (ffi.cpp:13-15)
typeset_free(h) ==
  /\ ~crashed
  /\ h \in Held
  /\ LET c == [Call("free", h) EXCEPT !.stale = h \notin live] IN
     IF h \in live
     THEN /\ live' = live \ {h}
          /\ released' = released \cup {h}
          /\ mem' = [mem EXCEPT ![h] = ZeroBits]
          /\ last' = c
          /\ crashed' = FALSE
     ELSE \/ Crash(c)
          \/ /\ last' = c
             /\ UNCHANGED <<live, released, mem, crashed>>
  /\ HeapFrame

\* bits_[id / 64] |= ... or &= ~... with id / 64 outside bits_, through a live
\* set h: a crash, a write no set sees, or bit id % 64 of a word of another
\* live set written (set: TRUE for |=, FALSE for &= ~).
WildWrite(h, id, set, c) ==
  \/ Crash(c)
  \/ /\ last' = c
     /\ UNCHANGED <<live, released, mem, crashed>>
  \/ \E v \in live \ {h}, w \in ClobberWords :
       /\ mem' = [mem EXCEPT ![v][w] = IF set THEN @ \cup {id % WORD_BITS}
                                               ELSE @ \ {id % WORD_BITS}]
       /\ last' = c
       /\ UNCHANGED <<live, released, crashed>>

\* typeset_insert (ffi.cpp:17-19)
typeset_insert(h, id) ==
  /\ ~crashed
  /\ h \in Held
  /\ LET c == [Call("insert", h) EXCEPT !.stale = h \notin live,
                                                     !.badid = ~InRange(id)] IN
     IF h \notin live
     THEN \/ Crash(c)
          \/ /\ last' = c
             /\ UNCHANGED <<live, released, mem, crashed>>
     ELSE IF ~InRange(id)
     THEN WildWrite(h, id, TRUE, c)
     ELSE /\ mem' = [mem EXCEPT ![h] = insert(@, id)]
          /\ last' = c
          /\ UNCHANGED <<live, released, crashed>>
  /\ HeapFrame

\* typeset_contains (ffi.cpp:21-23)
typeset_contains(h, id) ==
  /\ ~crashed
  /\ h \in Held
  /\ LET c == [Call("contains", h) EXCEPT !.stale = h \notin live,
                                                       !.badid = ~InRange(id)] IN
     IF h \in live /\ InRange(id)
     THEN /\ last' = [c EXCEPT !.bval = contains(mem[h], id)]
          /\ UNCHANGED <<live, released, mem, crashed>>
     ELSE \/ Crash(c)
          \/ /\ \E v \in BOOLEAN : last' = [c EXCEPT !.bval = v]
             /\ UNCHANGED <<live, released, mem, crashed>>
  /\ HeapFrame

\* Mutant of typeset_union: the union is accumulated in a and a is returned.
typeset_union_into_a(a, b) ==
  /\ ~crashed
  /\ a \in live
  /\ b \in live
  /\ mem' = [mem EXCEPT ![a] = UnionInplaceTable[build, mem[a], mem[b], a = b]]
  /\ last' = [Call("union", a) EXCEPT !.ret = a]
  /\ UNCHANGED <<live, released, crashed>>
  /\ HeapFrame

\* typeset_union (ffi.cpp:25-30)
typeset_union(a, b) ==
  /\ ~crashed
  /\ a \in Held
  /\ b \in Held
  /\ LET c == [Call("union", a) EXCEPT !.stale = {a, b} \ live # {}] IN
     \/ c.stale /\ Crash(c)
     \/ \E x \in Deref(a), y \in Deref(b) : Allocate(UnionTable[build, x, y], c)
  /\ HeapFrame

\* typeset_intersection (ffi.cpp:32-37)
typeset_intersection(a, b) ==
  /\ ~crashed
  /\ a \in Held
  /\ b \in Held
  /\ LET c == [Call("intersection", a) EXCEPT !.stale = {a, b} \ live # {}] IN
     \/ c.stale /\ Crash(c)
     \/ \E x \in Deref(a), y \in Deref(b) : Allocate(IntersectionTable[build, x, y], c)
  /\ HeapFrame

\* typeset_is_subset (ffi.cpp:39-43)
typeset_is_subset(a, b) ==
  /\ ~crashed
  /\ a \in Held
  /\ b \in Held
  /\ LET c == [Call("is_subset", a) EXCEPT !.stale = {a, b} \ live # {}] IN
     \/ c.stale /\ Crash(c)
     \/ /\ \E x \in Deref(a), y \in Deref(b) : last' = [c EXCEPT !.bval = SubsetTable[x, y]]
        /\ UNCHANGED <<live, released, mem, crashed>>
  /\ HeapFrame

\* typeset_cardinality (ffi.cpp:45-47)
typeset_cardinality(h) ==
  /\ ~crashed
  /\ h \in Held
  /\ LET c == [Call("cardinality", h) EXCEPT !.stale = h \notin live] IN
     \/ c.stale /\ Crash(c)
     \/ /\ \E x \in Deref(h) :
             last' = [c EXCEPT !.nval = CardinalityTable[x]]
        /\ UNCHANGED <<live, released, mem, crashed>>
  /\ HeapFrame

\* typeset_from_array (ffi.cpp:61-65); the ids of the array inside the universe
\* are inserted, every other one is a wild write from the new set.
typeset_from_array(ids) ==
  /\ ~crashed
  /\ LET good == SelectSeq(ids, InRange)
         c == [Call("from_array", 0) EXCEPT !.badid = Len(good) < Len(ids),
                                                         !.count = Len(ids)] IN
     \/ c.badid /\ Crash(c)
     \/ Allocate(insert_many(ZeroBits, good, 1), c)
     \/ /\ c.badid
        /\ \E r \in Slots \ live, v \in live, w \in ClobberWords :
             /\ live' = live \cup {r}
             /\ released' = released \ {r}
             /\ mem' = [mem EXCEPT ![r] = insert_many(ZeroBits, good, 1),
                                   ![v][w] = @ \cup {BadId % WORD_BITS}]
             /\ last' = [c EXCEPT !.ret = r]
             /\ crashed' = FALSE
  /\ HeapFrame

\* typeset_union_inplace (ffi.cpp:81-85)
typeset_union_inplace(h, other) ==
  /\ ~crashed
  /\ h \in Held
  /\ other \in Held
  /\ LET c == [Call("union_inplace", h) EXCEPT !.stale = {h, other} \ live # {}] IN
     \/ c.stale /\ Crash(c)
     \/ /\ h \notin live
        /\ last' = c
        /\ UNCHANGED <<live, released, mem, crashed>>
     \/ /\ h \in live
        /\ \E y \in Deref(other) :
             mem' = [mem EXCEPT ![h] = UnionInplaceTable[build, @, y, h = other]]
        /\ last' = c
        /\ UNCHANGED <<live, released, crashed>>
  /\ HeapFrame

\* typeset_intersect_inplace (ffi.cpp:87-91)
typeset_intersect_inplace(h, other) ==
  /\ ~crashed
  /\ h \in Held
  /\ other \in Held
  /\ LET c == [Call("intersect_inplace", h) EXCEPT !.stale = {h, other} \ live # {}] IN
     \/ c.stale /\ Crash(c)
     \/ /\ h \notin live
        /\ last' = c
        /\ UNCHANGED <<live, released, mem, crashed>>
     \/ /\ h \in live
        /\ \E y \in Deref(other) :
             mem' = [mem EXCEPT ![h] = IntersectInplaceTable[build, @, y, h = other]]
        /\ last' = c
        /\ UNCHANGED <<live, released, crashed>>
  /\ HeapFrame

\* What the handles of hs can be read as, position by position.
RECURSIVE Contents(_)
Contents(hs) ==
  IF Len(hs) = 0 THEN {<<>>}
  ELSE {<<x>> \o t : x \in Deref(Head(hs)), t \in Contents(Tail(hs))}

\* for (size_t i = 1; i < count; ++i) result->..._inplace(*sets[i]), from
\* position i (1-based) on; the result is storage of its own.
RECURSIVE FoldMany(_, _, _, _)
FoldMany(op, acc, cs, i) ==
  IF i > Len(cs) THEN acc
  ELSE FoldMany(op,
         IF op = "or" THEN UnionInplaceTable[build, acc, cs[i], FALSE]
                      ELSE IntersectInplaceTable[build, acc, cs[i], FALSE],
         cs, i + 1)

\* typeset_union_many (ffi.cpp:93-103)
typeset_union_many(hs) ==
  /\ ~crashed
  /\ LET c == [Call("union_many", 0) EXCEPT !.stale = Range(hs) \ live # {},
                                                         !.count = Len(hs)] IN
     IF Len(hs) = 0
     THEN Allocate(ZeroBits, c)
     ELSE \/ c.stale /\ Crash(c)
          \/ \E cs \in Contents(hs) : Allocate(FoldMany("or", cs[1], cs, 2), c)
  /\ HeapFrame

\* typeset_intersection_many (ffi.cpp:105-115)
typeset_intersection_many(hs) ==
  /\ ~crashed
  /\ LET c == [Call("intersection_many", 0) EXCEPT !.stale = Range(hs) \ live # {},
                                                                !.count = Len(hs)] IN
     IF Len(hs) = 0
     THEN Allocate(ZeroBits, c)
     ELSE \/ c.stale /\ Crash(c)
          \/ \E cs \in Contents(hs) : Allocate(FoldMany("and", cs[1], cs, 2), c)
  /\ HeapFrame

\* The addresses the handle lists of the many-way calls are drawn from (the
\* third address is left for the result).
ManySlots == {1, 2}

Init ==
  /\ HeapIdle
  /\ build \in Builds
  /\ crashed = FALSE
  /\ LatticeIdle
  /\ ChunkIdle
  /\ ArrayIdle

Next ==
  \/ typeset_new
  \/ \E h \in Slots : typeset_free(h)
  \/ \E h \in Slots, id \in CallIds : typeset_insert(h, id)
  \/ \E h \in Slots, id \in CallIds : typeset_contains(h, id)
  \/ \E a \in Slots, b \in Slots : typeset_union(a, b)
  \/ \E a \in Slots, b \in Slots : typeset_intersection(a, b)
  \/ \E a \in Slots, b \in Slots : typeset_is_subset(a, b)
  \/ \E h \in Slots : typeset_cardinality(h)
  \/ \E ids \in SeqsUpTo(CallIds, MaxLen) : typeset_from_array(ids)
  \/ \E h \in Slots, other \in Slots : typeset_union_inplace(h, other)
  \/ \E h \in Slots, other \in Slots : typeset_intersect_inplace(h, other)
  \/ \E hs \in SeqsUpTo(ManySlots, MaxMany) : typeset_union_many(hs)
  \/ \E hs \in SeqsUpTo(ManySlots, MaxMany) : typeset_intersection_many(hs)

Spec == Init /\ [][Next]_vars

\* Calls with a TypeId outside the universe, on sets and on the lattice as the
\* program holds it (no edge is ever added to the two maps).
BadIdArgs == {2, BadId}

NextBadId ==
  \/ typeset_new
  \/ \E h \in Slots, id \in CallIds : typeset_insert(h, id)
  \/ \E h \in Slots, id \in CallIds : typeset_contains(h, id)
  \/ \E ids \in SeqsUpTo(CallIds, MaxLen) : typeset_from_array(ids)
  \/ \E a \in BadIdArgs, b \in BadIdArgs : IsSubtypeCall(a, b)
  \/ \E a \in BadIdArgs, b \in BadIdArgs : MeetCall(a, b)
  \/ \E a \in BadIdArgs, b \in BadIdArgs : JoinCall(a, b)

SpecBadId == Init /\ [][NextBadId]_vars


(***************************************************************************)
(* Claims about the heap ABI                                               *)
(***************************************************************************)
\* C2 (as claimed): every call given a handle that was freed reports
\* InvalidHandle (and so touches neither the released storage nor a live set).
C2_UseAfterFreeReported == last.stale => last.status = "InvalidHandle"

\* C3 (as claimed): a call given a TypeId outside [0, 4096) fails with
\* InvalidTypeId and leaves every set and the lattice's edges as they were.
C3_BadIdRejected ==
  [][/\ (last'.badid /\ ~last'.stale) =>
          (last'.status = "InvalidTypeId" /\ mem' = mem /\ live' = live)
     /\ (lq'.op # "none" /\ ~(InRange(lq'.a) /\ InRange(lq'.b))) =>
          (lq'.status = "InvalidTypeId" /\ supertype_graph' = supertype_graph)]_vars

AllocOps == {"new", "from_array", "union", "intersection", "union_many", "intersection_many"}
MutatingOps == {"insert", "union_inplace", "intersect_inplace"}

\* C8: an allocating call that returns a handle (its operands live sets, its
\* ids inside the universe) returns one that no live set had at the time of the
\* call and leaves the contents of every already-live set, its operands
\* included, unchanged; an insert or in-place operation on a set changes no
\* other live set.
C8_AllocFresh ==
  [][/\ (last'.op \in AllocOps /\ ~last'.stale /\ ~last'.badid /\ last'.status = "Ok") =>
          /\ last'.ret \in Slots \ live
          /\ live' = live \cup {last'.ret}
          /\ \A s \in live : mem'[s] = mem[s]
     /\ (last'.op \in MutatingOps /\ ~last'.stale /\ ~last'.badid /\ last'.status = "Ok") =>
          /\ live' = live
          /\ \A s \in live \ {last'.h} : mem'[s] = mem[s]]_vars

\* C8 witness: a union of live sets returned a non-empty third set while an
\* empty set is live beside it.
C8_Witness ==
  /\ last.op = "union"
  /\ ~last.stale
  /\ last.status = "Ok"
  /\ live = Slots
  /\ mem[last.ret] # ZeroBits
  /\ \E s \in live \ {last.ret} : mem[s] = ZeroBits

\* C10 (as claimed): intersection_many over an empty list reports
\* InvalidArgument and returns no handle; union_many over an empty list returns
\* a fresh empty set.
C10_EmptyListConvention ==
  /\ (last.op = "intersection_many" /\ last.count = 0) =>
       (last.status = "InvalidArgument" /\ last.ret = 0)
  /\ (last.op = "union_many" /\ last.count = 0) =>
       (last.status = "Ok" /\ last.ret \in live /\ mem[last.ret] = ZeroBits)

(***************************************************************************)
(* typeset_from_array followed by typeset_to_array                         *)
(***************************************************************************)
\* Three ids of one word and the last id of the universe.
ArrayIds == {3, 7, 9, 4095}

\* The caller's buffer: MaxCap + 1 positions, none written yet.
FreshBuffer == [k \in 0..MaxCap |-> -1]

\* Mutant of ScanIds: the loop stops one element late (written <= capacity).
RECURSIVE ScanIdsOffByOne(_, _, _, _, _)
ScanIdsOffByOne(bits, i, stop, cap, st) ==
  IF i < stop /\ st.written <= cap
  THEN ScanIdsOffByOne(bits, i + 1, stop, cap,
         IF contains(bits, i)
         THEN [written |-> st.written + 1, buf |-> [st.buf EXCEPT ![st.written] = i]]
         ELSE st)
  ELSE st

\* for (i ...; i < stop && written < capacity; ++i)
\*   if (ts->contains(i)) ids[written++] = i;
RECURSIVE ScanIds(_, _, _, _, _)
ScanIds(bits, i, stop, cap, st) ==
  IF i < stop /\ st.written < cap
  THEN ScanIds(bits, i + 1, stop, cap,
         IF contains(bits, i)
         THEN [written |-> st.written + 1, buf |-> [st.buf EXCEPT ![st.written] = i]]
         ELSE st)
  ELSE st

\* The loop of typeset_to_array over 0 .. ScanLimit-1, evaluated in runs of
\* WORD_BITS consecutive ids (the same iterations in the same order).
RECURSIVE to_array_loop(_, _, _, _)
to_array_loop(bits, i, cap, st) ==
  IF i < ScanLimit /\ st.written < cap
  THEN to_array_loop(bits, i + WORD_BITS, cap, ScanIds(bits, i, i + WORD_BITS, cap, st))
  ELSE st

\* The loop on the sets the array ids can form, tabulated once.
ArraySets == {SetOfIds(S) : S \in SUBSET ArrayIds}
ToArrayTable ==
  [x \in ArraySets, capacity \in 0..MaxCap |->
     to_array_loop(x, 0, capacity, [written |-> 0, buf |-> FreshBuffer])]

\* typeset_to_array (ffi.cpp:67-79), into the caller's buffer
typeset_to_array(h, capacity) ==
  /\ ~crashed
  /\ h \in Held
  /\ LET c == [Call("to_array", h) EXCEPT !.stale = h \notin live] IN
     \/ c.stale /\ Crash(c) /\ UNCHANGED arr_out
     \/ /\ \E x \in Deref(h) :
             LET r == ToArrayTable[x, capacity]
             IN /\ arr_out' = [written |-> r.written, buf |-> r.buf, done |-> TRUE]
                /\ last' = [c EXCEPT !.nval = r.written]
        /\ UNCHANGED <<live, released, mem, crashed>>
  /\ UNCHANGED <<build, latticeVars, chunkVars, arr_in, arr_cap>>

InitArray ==
  /\ arr_in \in SeqsUpTo(ArrayIds, MaxArr)
  /\ arr_cap \in 0..MaxCap
  /\ arr_out = NoOutput
  /\ HeapIdle
  /\ build = "SCALAR"
  /\ crashed = FALSE
  /\ LatticeIdle
  /\ ChunkIdle

NextArray ==
  \/ live = {} /\ typeset_from_array(arr_in)
  \/ \E h \in Slots : typeset_to_array(h, arr_cap)

SpecArray == InitArray /\ [][NextArray]_vars

\* The ids whose bit is set.
Members(bits) == UNION {{w * WORD_BITS + b : b \in bits[w]} : w \in WordIdx}

Min(x, y) == IF x <= y THEN x ELSE y

\* C9: to_array(S, buffer, c) returns min(|S|, c), writes the that-many
\* smallest members of S in strictly ascending order to positions
\* 0..returned-1, writes no other position, and leaves S unchanged; after
\* from_array(ids) and with c >= |S| the output is the distinct ids of the
\* input in ascending order.
C9_ToArray ==
  arr_out.done =>
    LET S == Members(mem[last.h])
        n == arr_out.written
        out == {arr_out.buf[k] : k \in 0..(n - 1)}
    IN /\ last.op = "to_array"
       /\ last.nval = n
       /\ n = Min(Cardinality(S), arr_cap)
       /\ out \subseteq S
       /\ \A k \in 0..(n - 2) : arr_out.buf[k] < arr_out.buf[k + 1]
       /\ \A x \in S \ out : \A y \in out : y < x
       /\ \A k \in n..MaxCap : arr_out.buf[k] = -1
       /\ S = Range(arr_in)
       /\ mem[last.h] = insert_many(ZeroBits, arr_in, 1)
       /\ arr_cap >= Cardinality(S) => out = Range(arr_in)

\* C9 witness: a truncated conversion (more members than capacity) of a set
\* built from an array that was not in ascending order.
C9_Witness ==
  /\ arr_out.done
  /\ arr_out.written = arr_cap
  /\ arr_cap > 0
  /\ Cardinality(Range(arr_in)) > arr_cap
  /\ arr_in[1] > arr_in[2]

(***************************************************************************)
(* The subset test against the intersection                                *)
(***************************************************************************)
\* A.is_subset_of(B): the operands stay as they are, the answer is recorded.
ApplyIsSubset ==
  /\ cres' = [op |-> "is_subset_of", bits |-> ZeroBits, stored |-> <<>>,
              wrote |-> "none", ret |-> is_subset_of(cA, cB, 0)]
  /\ UNCHANGED <<cA, cB, build, crashed, latticeVars, heapVars, arrayVars>>

NextSubset ==
  \/ ApplyIsSubset
  \/ ApplyIntersection

SpecSubset == InitChunk /\ [][NextSubset]_vars

\* C11: is_subset_of(A, B) is true exactly when A & B has the same 64 words as
\* A (under each compilation of operator&), that is, exactly when every id
\* contained in A is contained in B.
C11_SubsetIffIntersectionIsA ==
  /\ cres.op = "is_subset_of" =>
       /\ \A b \in Builds : cres.ret = (set_intersection(b, cA, cB).bits = cA)
       /\ cres.ret = (Members(cA) \subseteq Members(cB))
  /\ (cres.op = "and" /\ cres.wrote = "result") =>
       /\ (cres.bits = cA) = is_subset_of(cA, cB, 0)
       /\ (cres.bits = cA) = (Members(cA) \subseteq Members(cB))

\* C11 witness: a non-empty set with a member in the last word was found to be
\* a subset of a different set.
C11_Witness ==
  /\ cres.op = "is_subset_of"
  /\ cres.ret
  /\ cA # cB
  /\ cA[WORDS - 1] # {}

====
